---- MODULE Spec2Model ----
(***************************************************************************)
(* Rice Quality Analyzer (src/app.py): one Streamlit session.              *)
(*                                                                         *)
(* Every user interaction starts a script run of main(); a run is the      *)
(* sequence configure_application, initialize_api_client,                  *)
(* display_main_interface, render_sidebar.  st.stop() halts a run,         *)
(* st.rerun() abandons it and starts a new one, an uncaught exception      *)
(* ends it.  The elements a run has rendered so far are the set `screen`.  *)
(***************************************************************************)
EXTENDS Naturals, Sequences, FiniteSets

\* Longest report text (in tokens) the external model returns.
MaxLen == 2

\* Tokens of a report text: a plain character, a line break, and a "<" that
\* opens markup reportlab's Paragraph cannot parse.
Alphabet == {"a", "\n", "<"}

Texts == UNION {[1..n -> Alphabet] : n \in 0..MaxLen}

----------------------------------------------------------------------------
\* Python values held by the session, the handler's locals and the environment.

None == [tag |-> "None", text |-> <<>>]

Str(t) == [tag |-> "str", text |-> t]

\* Python truthiness of None and of a str.
Truthy(v) == v.tag = "str" /\ v.text # <<>>

\* st.session_state: a dict, here with at most the key analysis_result.
EmptyState == [k \in {} |-> None]

\* st.session_state.get(key)
Get(ss, k) == IF k \in DOMAIN ss THEN ss[k] ELSE None

\* st.session_state.key = v
Put(ss, k, v) == [x \in DOMAIN ss \cup {k} |-> IF x = k THEN v ELSE ss[x]]

\* st.session_state.pop(key, None)
Pop(ss, k) == [x \in DOMAIN ss \ {k} |-> ss[x]]

\* The values os.getenv("GROQ_API_KEY") can give: unset, empty, a key.
ApiKeys == {None, Str(<<>>), Str(<<"a">>)}

----------------------------------------------------------------------------
\* Uploaded files.  The file uploader admits png, jpg and jpeg by extension
\* only; what PIL makes of the content is a property of the file.

NoFile == "none"

ALLOWED_FILE_TYPES == {"png", "jpg", "jpeg"}

Files == {"rice.png", "rice.jpg", "odd.jpeg", "broken.png"}

Extension(f) ==
  CASE f = "rice.png" -> "png"
    [] f = "rice.jpg" -> "jpg"
    [] f = "odd.jpeg" -> "jpeg"
    [] f = "broken.png" -> "png"

\* Image.open(uploaded_file) followed by st.image: raises for content PIL
\* cannot identify.
OpensOK(f) == f # "broken.png"

\* image.format of the opened file.
ImageFormat(f) == IF Extension(f) = "png" THEN "PNG" ELSE "JPEG"

\* image.save(buffer, format=image.format): raises for an image PIL can show
\* but not write back in its own format.
SavesOK(f) == OpensOK(f) /\ f # "odd.jpeg"

Lower(fmt) == IF fmt = "PNG" THEN "png" ELSE "jpeg"

NoImage == [b64 |-> "", format |-> ""]

\* process_image_data: (base64 text, format), or (None, None) after an error.
\* The base64 text of a file is named by the file.
process_image_data(f) ==
  IF SavesOK(f) THEN [b64 |-> f, format |-> ImageFormat(f)] ELSE NoImage

NoUrl == [mime |-> "", data |-> ""]

\* f"data:image/{img_format.lower()};base64,{base64_image}"
ImageUrl(img) == [mime |-> Lower(img.format), data |-> img.b64]

----------------------------------------------------------------------------
\* Rendering of a report.

DivOpen == "<div class=report-container><div class=report-text>"

DivClose == "</div></div>"

\* Mutant: the report is stripped of a trailing line break before rendering.
ReportHtml_strip(t) ==
  IF t # <<>> /\ t[Len(t)] = "\n"
    THEN <<DivOpen>> \o SubSeq(t, 1, Len(t) - 1) \o <<DivClose>>
    ELSE <<DivOpen>> \o t \o <<DivClose>>

\* The f-string handed to st.markdown for the report.
ReportHtml(t) == <<DivOpen>> \o t \o <<DivClose>>

NoHtml == <<>>

\* The report text a rendered report block holds.
RenderedText(html) == SubSeq(html, 2, Len(html) - 1)

\* Paragraph(...) raises on markup it cannot parse.
ParagraphOK(t) == \A i \in DOMAIN t : t[i] # "<"

\* report_text.replace('\n', '<br/>')
ReplaceBreaks(t) == [i \in DOMAIN t |-> IF t[i] = "\n" THEN "<br/>" ELSE t[i]]

NoPdf == [title |-> "", body |-> <<>>]

\* generate_pdf_report: the story of the built document.
generate_pdf_report(t) ==
  [title |-> "<b>Rice Quality Report</b>", body |-> ReplaceBreaks(t)]

----------------------------------------------------------------------------
VARIABLES
  api_key,        \* os.getenv("GROQ_API_KEY")
  session_state,  \* st.session_state
  uploaded_file,  \* the file uploader's widget state
  pressed,        \* the button that returns True in the current run
  pc,             \* position of the current script run
  run_end,        \* how the last run ended
  screen,         \* elements rendered by the current run
  report_html,    \* report block rendered by the current run
  pdf_report,     \* data offered by the download button of the current run
  client,         \* whether this run created the Groq client
  image_url,      \* local of generate_rice_report
  report,         \* local of render_sidebar
  trigger,        \* the user interaction that caused the current run
  rerun,          \* whether the current run was started by st.rerun()
  outcome,        \* outcome of the analysis of the current interaction
  response,       \* the text the external model returned for it
  api_calls,      \* calls of the external model since the interaction
  pdf_calls,      \* calls of generate_pdf_report since the interaction
  prev_state      \* session_state at the moment of the interaction

env == <<api_key>>
widgets == <<uploaded_file, pressed>>
ui == <<screen, report_html, pdf_report>>
locals == <<client, image_url, report>>
history == <<trigger, rerun, outcome, response, api_calls, pdf_calls, prev_state>>

vars == <<api_key, session_state, uploaded_file, pressed, pc, run_end, screen,
          report_html, pdf_report, client, image_url, report, trigger, rerun,
          outcome, response, api_calls, pdf_calls, prev_state>>

Result == Get(session_state, "analysis_result")

\* A fresh script run: nothing rendered yet, no locals.
FreshRun ==
  /\ pc' = "configure"
  /\ run_end' = "running"
  /\ screen' = {}
  /\ report_html' = NoHtml
  /\ pdf_report' = NoPdf
  /\ client' = FALSE
  /\ image_url' = NoUrl
  /\ report' = None

\* A user interaction with a widget starts a run.
Interaction(t) ==
  /\ FreshRun
  /\ trigger' = t
  /\ rerun' = FALSE
  /\ outcome' = "none"
  /\ response' = None
  /\ api_calls' = 0
  /\ pdf_calls' = 0
  /\ prev_state' = session_state

\* st.rerun(): the run is abandoned and the script runs again; buttons are
\* back to False, other widget state is kept.
StRerun ==
  /\ FreshRun
  /\ pressed' = "none"
  /\ rerun' = TRUE

\* The run ends; what it rendered stays on the page.
EndRun(how) ==
  /\ pc' = "idle"
  /\ run_end' = how

Init ==
  /\ api_key \in ApiKeys
  /\ session_state = EmptyState
  /\ uploaded_file = NoFile
  /\ pressed = "none"
  /\ pc = "configure"
  /\ run_end = "running"
  /\ screen = {}
  /\ report_html = NoHtml
  /\ pdf_report = NoPdf
  /\ client = FALSE
  /\ image_url = NoUrl
  /\ report = None
  /\ trigger = "open"
  /\ rerun = FALSE
  /\ outcome = "none"
  /\ response = None
  /\ api_calls = 0
  /\ pdf_calls = 0
  /\ prev_state = EmptyState

----------------------------------------------------------------------------
\* The script run.

configure_application ==
  /\ pc = "configure"
  /\ pc' = "init_client"
  /\ UNCHANGED <<env, session_state, widgets, run_end, ui, locals, history>>

\* Mutant: the missing key is reported but the run is not stopped.
initialize_api_client_nostop ==
  /\ pc = "init_client"
  /\ screen' = IF ~Truthy(api_key) THEN screen \cup {"error_api_key"} ELSE screen
  /\ client' = TRUE
  /\ pc' = "main"
  /\ UNCHANGED <<env, session_state, widgets, run_end, report_html, pdf_report,
                 image_url, report, history>>

initialize_api_client ==
  /\ pc = "init_client"
  /\ IF ~Truthy(api_key)
       THEN /\ screen' = screen \cup {"error_api_key"}
            /\ EndRun("stopped")
            /\ UNCHANGED client
       ELSE /\ client' = TRUE
            /\ pc' = "main"
            /\ UNCHANGED <<screen, run_end>>
  /\ UNCHANGED <<env, session_state, widgets, report_html, pdf_report,
                 image_url, report, history>>

\* Mutant: the clear button reruns without dropping the result.
ClearHandler_keep ==
  /\ UNCHANGED session_state
  /\ StRerun

\* The body of `if st.button("Clear Analysis")`.
ClearHandler ==
  /\ session_state' = Pop(session_state, "analysis_result")
  /\ StRerun

display_main_interface ==
  /\ pc = "main"
  /\ LET shown == Truthy(Result)
         text == Result.text
         raised == shown /\ ~ParagraphOK(text)
         head == {"title"} \cup (IF shown THEN {"report"} ELSE {})
     IN /\ pdf_calls' = IF shown THEN pdf_calls + 1 ELSE pdf_calls
        /\ IF raised
             THEN /\ screen' = screen \cup head \cup {"exception"}
                  /\ report_html' = ReportHtml(text)
                  /\ EndRun("exception")
                  /\ UNCHANGED <<session_state, pressed, pdf_report, client,
                                 image_url, report, rerun>>
             ELSE IF pressed = "clear"
               THEN ClearHandler
               ELSE /\ screen' = screen \cup head \cup {"clear"}
                                   \cup (IF shown THEN {"download"} ELSE {})
                    /\ report_html' = IF shown THEN ReportHtml(text)
                                               ELSE report_html
                    /\ pdf_report' = IF shown THEN generate_pdf_report(text)
                                              ELSE pdf_report
                    /\ pc' = "sidebar"
                    /\ UNCHANGED <<session_state, pressed, run_end, client,
                                   image_url, report, rerun>>
  /\ UNCHANGED <<env, uploaded_file, trigger, outcome, response, api_calls,
                 prev_state>>

\* Mutant: the analyze button is rendered outside `if uploaded_file`.
render_sidebar_button_always ==
  /\ pc = "sidebar"
  /\ IF uploaded_file = NoFile
       THEN /\ screen' = screen \cup {"uploader", "analyze"}
            /\ EndRun("completed")
       ELSE IF ~OpensOK(uploaded_file)
         THEN /\ screen' = screen \cup {"uploader", "exception"}
              /\ EndRun("exception")
         ELSE /\ screen' = screen \cup {"uploader", "image", "analyze"}
              /\ IF pressed = "analyze"
                   THEN pc' = "encode" /\ UNCHANGED run_end
                   ELSE EndRun("completed")
  /\ UNCHANGED <<env, session_state, widgets, report_html, pdf_report, locals,
                 history>>

\* Mutant: the analysis is run outside `if st.button(...)`, for any upload.
render_sidebar_unguarded ==
  /\ pc = "sidebar"
  /\ IF uploaded_file = NoFile
       THEN /\ screen' = screen \cup {"uploader"}
            /\ EndRun("completed")
       ELSE IF ~OpensOK(uploaded_file)
         THEN /\ screen' = screen \cup {"uploader", "exception"}
              /\ EndRun("exception")
         ELSE /\ screen' = screen \cup {"uploader", "image", "analyze"}
              /\ IF ~rerun
                   THEN pc' = "encode" /\ UNCHANGED run_end
                   ELSE EndRun("completed")
  /\ UNCHANGED <<env, session_state, widgets, report_html, pdf_report, locals,
                 history>>

render_sidebar ==
  /\ pc = "sidebar"
  /\ IF uploaded_file = NoFile
       THEN /\ screen' = screen \cup {"uploader"}
            /\ EndRun("completed")
       ELSE IF ~OpensOK(uploaded_file)
         THEN /\ screen' = screen \cup {"uploader", "exception"}
              /\ EndRun("exception")
         ELSE /\ screen' = screen \cup {"uploader", "image", "analyze"}
              /\ IF pressed = "analyze"
                   THEN pc' = "encode" /\ UNCHANGED run_end
                   ELSE EndRun("completed")
  /\ UNCHANGED <<env, session_state, widgets, report_html, pdf_report, locals,
                 history>>

\* Mutant: the `if not base64_image: return None` guard is missing.
encode_image_no_abort ==
  /\ pc = "encode"
  /\ LET img == process_image_data(uploaded_file)
     IN /\ screen' = IF img.b64 = "" THEN screen \cup {"error_image"} ELSE screen
        /\ outcome' = IF img.b64 = "" THEN "decode_error" ELSE outcome
        /\ image_url' = IF img.b64 = "" THEN image_url ELSE ImageUrl(img)
        /\ pc' = "api_call"
  /\ UNCHANGED <<env, session_state, widgets, run_end, report_html, pdf_report,
                 client, report, trigger, rerun, response, api_calls, pdf_calls,
                 prev_state>>

\* generate_rice_report up to the request: encode the image, give up on failure.
encode_image ==
  /\ pc = "encode"
  /\ LET img == process_image_data(uploaded_file)
     IN IF img.b64 = ""
          THEN /\ screen' = screen \cup {"error_image"}
               /\ report' = None
               /\ outcome' = "decode_error"
               /\ pc' = "store"
               /\ UNCHANGED image_url
          ELSE /\ image_url' = ImageUrl(img)
               /\ pc' = "api_call"
               /\ UNCHANGED <<screen, report, outcome>>
  /\ UNCHANGED <<env, session_state, widgets, run_end, report_html, pdf_report,
                 client, trigger, rerun, response, api_calls, pdf_calls,
                 prev_state>>

\* client.chat.completions.create(...) returns a response with text r.
call_returns(r) ==
  /\ pc = "api_call"
  /\ api_calls' = api_calls + 1
  /\ report' = Str(r)
  /\ response' = Str(r)
  /\ outcome' = "ok"
  /\ pc' = "store"
  /\ UNCHANGED <<env, session_state, widgets, run_end, ui, client, image_url,
                 trigger, rerun, pdf_calls, prev_state>>

\* Mutant: the except branch returns the error text as the report.
call_raises_returns_text ==
  /\ pc = "api_call"
  /\ api_calls' = api_calls + 1
  /\ screen' = screen \cup {"error_api"}
  /\ report' = Str(<<"a">>)
  /\ outcome' = "api_error"
  /\ pc' = "store"
  /\ UNCHANGED <<env, session_state, widgets, run_end, report_html, pdf_report,
                 client, image_url, trigger, rerun, response, pdf_calls,
                 prev_state>>

\* Mutant: the except branch tries the call once more before giving up.
call_raises_retry ==
  /\ pc = "api_call"
  /\ api_calls' = api_calls + 1
  /\ screen' = screen \cup {"error_api"}
  /\ report' = None
  /\ outcome' = "api_error"
  /\ pc' = IF api_calls = 0 THEN "api_call" ELSE "store"
  /\ UNCHANGED <<env, session_state, widgets, run_end, report_html, pdf_report,
                 client, image_url, trigger, rerun, response, pdf_calls,
                 prev_state>>

\* client.chat.completions.create(...) raises.
call_raises ==
  /\ pc = "api_call"
  /\ api_calls' = api_calls + 1
  /\ screen' = screen \cup {"error_api"}
  /\ report' = None
  /\ outcome' = "api_error"
  /\ pc' = "store"
  /\ UNCHANGED <<env, session_state, widgets, run_end, report_html, pdf_report,
                 client, image_url, trigger, rerun, response, pdf_calls,
                 prev_state>>

\* Mutant: the outcome is stored, and the script rerun, only for a report.
store_and_rerun_if_report ==
  /\ pc = "store"
  /\ IF Truthy(report)
       THEN /\ session_state' = Put(session_state, "analysis_result", report)
            /\ StRerun
       ELSE /\ EndRun("completed")
            /\ UNCHANGED <<session_state, pressed, ui, locals, rerun>>
  /\ UNCHANGED <<env, uploaded_file, trigger, outcome, response, api_calls,
                 pdf_calls, prev_state>>

\* st.session_state.analysis_result = report; st.rerun()
store_and_rerun ==
  /\ pc = "store"
  /\ session_state' = Put(session_state, "analysis_result", report)
  /\ StRerun
  /\ UNCHANGED <<env, uploaded_file, trigger, outcome, response, api_calls,
                 pdf_calls, prev_state>>

----------------------------------------------------------------------------
\* The user, acting on the widgets the last run left on the page.

Upload(f) ==
  /\ pc = "idle"
  /\ "uploader" \in screen
  /\ Extension(f) \in ALLOWED_FILE_TYPES
  /\ f # uploaded_file
  /\ uploaded_file' = f
  /\ pressed' = "none"
  /\ Interaction("upload")
  /\ UNCHANGED <<env, session_state>>

RemoveUpload ==
  /\ pc = "idle"
  /\ "uploader" \in screen
  /\ uploaded_file # NoFile
  /\ uploaded_file' = NoFile
  /\ pressed' = "none"
  /\ Interaction("remove")
  /\ UNCHANGED <<env, session_state>>

PressClear ==
  /\ pc = "idle"
  /\ "clear" \in screen
  /\ pressed' = "clear"
  /\ Interaction("clear")
  /\ UNCHANGED <<env, session_state, uploaded_file>>

PressAnalyze ==
  /\ pc = "idle"
  /\ "analyze" \in screen
  /\ pressed' = "analyze"
  /\ Interaction("analyze")
  /\ UNCHANGED <<env, session_state, uploaded_file>>

Next ==
  \/ configure_application
  \/ initialize_api_client
  \/ display_main_interface
  \/ render_sidebar
  \/ encode_image
  \/ \E r \in Texts : call_returns(r)
  \/ call_raises
  \/ store_and_rerun
  \/ \E f \in Files : Upload(f)
  \/ RemoveUpload
  \/ PressClear
  \/ PressAnalyze

Spec == Init /\ [][Next]_vars

----------------------------------------------------------------------------
\* Properties.

Errors == {"error_api_key", "error_image", "error_api", "exception"}

\* The session held a report when the user acted.
HadResult == Truthy(Get(prev_state, "analysis_result"))

\* A script run never stops half way: the only states without a next step of
\* the script are those where a run has ended.
RunsToItsEnd == pc # "idle" => ENABLED Next

\* C1 as stated: when the external call raised, an error message was
\* reported, and generate_pdf_report has not been invoked since the press of
\* the analyze trigger, neither in the run that handled it nor in the rerun.
C1_NoPdfSincePress ==
  outcome = "api_error" =>
    /\ pdf_calls = 0
    /\ pc = "store" => "error_api" \in screen

\* C1 amended: when the external call raised, an error message was reported
\* in that run, nothing is returned as the report, and generate_pdf_report is
\* not invoked from then on, neither in the rest of that run nor in the rerun,
\* which offers no report and no download.
C1_NoPdfAfterApiError ==
  /\ [](outcome = "api_error" =>
          /\ pc = "store" => "error_api" \in screen /\ report = None
          /\ rerun => /\ ~Truthy(Result)
                      /\ "report" \notin screen
                      /\ "download" \notin screen
                      /\ pdf_report = NoPdf)
  /\ [][outcome = "api_error" /\ outcome' = "api_error"
          => pdf_calls' = pdf_calls]_vars

\* The rerun after a failed call has completed, in a session that held a
\* report before the press: that report's PDF was built before the call.
C1_Witness ==
  /\ pc = "idle" /\ rerun /\ run_end = "completed"
  /\ outcome = "api_error"
  /\ HadResult
  /\ pdf_calls = 1

\* C2: the session leaves 'no result' only through the analyze trigger on an
\* uploaded file, and leaves 'result present' only through the clear action.
C2_OnlyStatedEdges ==
  [][/\ (~Truthy(Result) /\ Truthy(Result'))
          => trigger = "analyze" /\ uploaded_file # NoFile
     /\ (Truthy(Result) /\ ~Truthy(Result'))
          => trigger = "clear"]_vars

\* C3 as stated: once the analyze trigger has completed with the external
\* model having returned R, a report is rendered and its text is R.
C3_RenderedIsResponse ==
  (pc = "idle" /\ rerun /\ outcome = "ok") =>
    /\ "report" \in screen
    /\ RenderedText(report_html) = response.text

\* C3 amended: the same for every non-empty R; for the empty R no report is
\* rendered.
C3_RenderedIsNonEmptyResponse ==
  (pc = "idle" /\ rerun /\ outcome = "ok") =>
    IF response.text # <<>>
      THEN /\ "report" \in screen
           /\ RenderedText(report_html) = response.text
           /\ Result = response
      ELSE "report" \notin screen

\* A two-token response ending in a line break has been rendered.
C3_Witness ==
  /\ pc = "idle" /\ rerun /\ outcome = "ok"
  /\ response.text = <<"a", "\n">>
  /\ "report" \in screen

\* C4: after the clear control was pressed the press is handled, the session
\* holds no analysis result, and the run that follows renders neither the
\* report nor the download control.
C4_ClearGivesNoResult ==
  /\ (trigger = "clear" /\ pc = "idle") => rerun
  /\ (trigger = "clear" /\ rerun) =>
       /\ "analysis_result" \notin DOMAIN session_state
       /\ "report" \notin screen
       /\ "download" \notin screen
       /\ report_html = NoHtml
       /\ pdf_report = NoPdf

\* The run after a clear has completed, and the session held a report before.
C4_Witness ==
  /\ trigger = "clear" /\ pc = "idle" /\ rerun
  /\ HadResult
  /\ "clear" \in screen

\* C5: with GROQ_API_KEY absent or empty no client is created and nothing but
\* the error message is rendered; the run ends stopped, with the message.
C5_NoKeyHaltsBeforeUi ==
  ~Truthy(api_key) =>
    /\ client = FALSE
    /\ screen \subseteq {"error_api_key"}
    /\ pc \in {"configure", "init_client", "idle"}
    /\ pc = "idle" => run_end = "stopped" /\ screen = {"error_api_key"}

\* A run with an empty key has halted.
C5_Witness ==
  /\ api_key = Str(<<>>)
  /\ pc = "idle"
  /\ run_end = "stopped"

\* C6 as stated: a completed render pass shows the upload control and the
\* analyze trigger, and shows report, download control and clear control
\* exactly when an analysis result is present.
C6_ControlsAsStated ==
  (pc = "idle" /\ run_end = "completed") =>
    /\ {"uploader", "analyze"} \subseteq screen
    /\ \A e \in {"report", "download", "clear"} : e \in screen <=> Truthy(Result)

\* C6 amended: a completed render pass shows the upload control and the clear
\* control; the analyze trigger exactly when a file is uploaded; the report,
\* with the stored text, and the download control exactly when the session
\* holds a non-empty analysis result.
C6_ControlsAsRendered ==
  (pc = "idle" /\ run_end = "completed") =>
    /\ {"uploader", "clear"} \subseteq screen
    /\ "analyze" \in screen <=> uploaded_file # NoFile
    /\ \A e \in {"report", "download"} : e \in screen <=> Truthy(Result)
    /\ Truthy(Result) => RenderedText(report_html) = Result.text

\* A completed pass with no upload and no result: clear control, no trigger.
C6_Witness ==
  /\ pc = "idle" /\ run_end = "completed"
  /\ uploaded_file = NoFile
  /\ ~Truthy(Result)
  /\ trigger = "remove"

\* C7: the external model is called only for an image that was encoded; when
\* encoding failed an error message is reported, the model is not called, no
\* result comes of it, and after the rerun the analyze trigger is offered again.
C7_DecodeFailureAborts ==
  /\ pc = "api_call" => SavesOK(uploaded_file)
  /\ (trigger = "analyze" /\ pc \in {"store", "idle"} /\ ~SavesOK(uploaded_file))
       => outcome = "decode_error"
  /\ outcome = "decode_error" =>
       /\ api_calls = 0
       /\ response = None
       /\ pc \in {"store", "configure", "init_client", "main", "sidebar", "idle"}
       /\ pc = "store" => "error_image" \in screen /\ report = None
       /\ rerun => ~Truthy(Result) /\ "report" \notin screen
       /\ pc = "idle" => /\ rerun
                         /\ run_end = "completed"
                         /\ "analyze" \in screen

\* The rerun after a failed encoding has completed, in a session that held a
\* report before the press.
C7_Witness ==
  /\ outcome = "decode_error"
  /\ pc = "idle" /\ rerun
  /\ HadResult
  /\ "analyze" \in screen

\* C8: at most one call of the external model per interaction; a call is made
\* only in the run that handles a press of the analyze trigger, never in the
\* rerun.
C8_NoRetry ==
  /\ [](api_calls <= 1)
  /\ [](rerun => pc \notin {"encode", "api_call", "store"})
  /\ [][api_calls' > api_calls
          => api_calls = 0 /\ trigger = "analyze" /\ ~rerun]_vars

\* The rerun after a call that raised has completed: one call was made.
C8_Witness ==
  /\ pc = "idle" /\ rerun /\ trigger = "analyze"
  /\ outcome = "api_error"
  /\ api_calls = 1

\* C9: the session state changes only in a run caused by the analyze trigger
\* or the clear control; after an upload, a replacement or a removal it is
\* what it was, and a stored report is rendered with its download control.
C9_UploadKeepsResult ==
  /\ [][session_state' # session_state
          => trigger \in {"analyze", "clear"} /\ trigger' = trigger]_vars
  /\ [](trigger \in {"upload", "remove"} =>
          /\ session_state = prev_state
          /\ ~rerun
          /\ (pc = "idle" /\ Truthy(Result)) =>
               /\ {"report", "download"} \subseteq screen
               /\ RenderedText(report_html) = Result.text
               /\ pdf_report = generate_pdf_report(Result.text))

\* After the upload was removed the earlier report is still rendered.
C9_Witness ==
  /\ trigger = "remove" /\ pc = "idle"
  /\ uploaded_file = NoFile
  /\ Truthy(Result)
  /\ "download" \in screen

\* C10: the analyze handler always stores the outcome and reruns; after a
\* failed analysis the session comes to rest in the rerun, whose render pass
\* holds no error message and no report.
C10_ErrorLostInRerun ==
  /\ [][pc = "store" =>
          /\ pc' = "configure" /\ rerun'
          /\ "analysis_result" \in DOMAIN session_state'
          /\ session_state'["analysis_result"] = report]_vars
  /\ []((pc = "idle" /\ outcome \in {"decode_error", "api_error"}) =>
          /\ rerun
          /\ run_end = "completed"
          /\ screen \cap (Errors \cup {"report", "download"}) = {}
          /\ Result = None)

\* The session rests after a failed call in a session with no earlier report.
C10_Witness ==
  /\ pc = "idle" /\ rerun
  /\ outcome = "api_error"
  /\ ~HadResult
  /\ screen = {"title", "clear", "uploader", "image", "analyze"}

====
